---- MODULE Spec2Model ----
(***************************************************************************)
(* A model of lich's two containers, Maybe (Just / Nothing) and Either     *)
(* (Right / Left), of their combinators, and of the list helpers.          *)
(*                                                                         *)
(* JavaScript values are tagged records: numbers, functions, arrays,       *)
(* promises, undefined and the four containers.  A method is an operator   *)
(* that returns the value the method returns (or the error it throws)      *)
(* together with the list of invocations of caller-supplied functions it   *)
(* made.  The chain machine (Spec) lets a client build a container and     *)
(* call methods on it one after the other; the collection machine          *)
(* (SpecColl) applies the list helpers to bounded lists.                   *)
(***************************************************************************)
EXTENDS Integers, Sequences, FiniteSets, TLC

\* ------------------------------------------------------------------ bounds
MaxVal == 1     \* payloads and reasons are the numbers 0..MaxVal
MaxChain == 3   \* a client calls at most MaxChain methods in a row
MaxLen == 3     \* the list helpers are applied to lists of at most MaxLen

\* ------------------------------------------------------- JavaScript values
Num(n) == [type |-> "number", n |-> n]
Undefined == [type |-> "undefined"]
Null == [type |-> "null"]
Str(s) == [type |-> "string", s |-> s]
Bool(b) == [type |-> "boolean", b |-> b]
Arr(items) == [type |-> "array", items |-> items]
\* a synchronous function: its body is a pipeline of primitives
Fn(body) == [type |-> "function", body |-> body, async |-> FALSE]
\* an asynchronous function: calling it returns a pending promise
AsyncFn(body) == [type |-> "function", body |-> body, async |-> TRUE]
\* the outcome of a call that throws
Throw(e) == [type |-> "throw", error |-> e]
TypeError == Throw([type |-> "TypeError"])
IsThrow(x) == x.type = "throw"

Vals == {Num(n) : n \in 0..MaxVal}

\* ------------------------------------------------------------ constructors
\* the object literals of the constructors: the tag and the payload
Just(j) == [type |-> "Just", value |-> j]
Nothing == [type |-> "Nothing"]
Right(r) == [type |-> "Right", value |-> r]
Left(l) == [type |-> "Left", reason |-> l]

IsMaybe(m) == m.type \in {"Just", "Nothing"}
IsEither(m) == m.type \in {"Right", "Left"}
IsContainer(m) == IsMaybe(m) \/ IsEither(m)

\* a promise: pending, fulfilled with a value, or rejected with a reason
Pending(will) == [type |-> "promise", state |-> "pending", will |-> will]
Fulfilled(v) == [type |-> "promise", state |-> "fulfilled", value |-> v]
Rejected(r) == [type |-> "promise", state |-> "rejected", reason |-> r]
NoPromise == [type |-> "none"]
IsPromise(p) == p.type = "promise"

\* ------------------------------------------------ caller-supplied functions
\* one primitive of a function body, applied to x
Prim(name, x) ==
  CASE name = "id" -> x
    [] name = "inc" -> IF x.type = "number" THEN Num((x.n + 1) % (MaxVal + 1)) ELSE x
    [] name = "zero" -> Num(0)
    [] name = "noop" -> Undefined
    [] name = "just" -> Just(x)
    [] name = "nothing" -> Nothing
    [] name = "right" -> Right(x)
    [] name = "left" -> Left(x)
    [] name = "raise" -> Throw(x)
    [] name = "positive" ->
         IF x.type = "number" /\ x.n > 0 THEN Just(Num(0)) ELSE Nothing

\* the value of the pipeline body at x; a throw ends the evaluation, and
\* "bind" calls the bind method of x with the rest of the body as its function
RECURSIVE Eval(_, _)
RECURSIVE bind(_, _)
Eval(body, x) ==
  IF body = <<>> \/ IsThrow(x) THEN x
  ELSE IF Head(body) = "bind" THEN bind(x, Fn(Tail(body))).ret
  ELSE Eval(Tail(body), Prim(Head(body), x))

\* x => g(f(x))
Compose(g, f) == Fn(f.body \o g.body)

\* x => f(x).bind(g)
BindThen(f, g) == Fn(f.body \o <<"bind">> \o g.body)

\* f(x) as JavaScript evaluates it: calling something that is not a function
\* throws a TypeError, calling an async function returns a pending promise.
\* inv is the list of invocations made.
Invoke(f, x) ==
  IF f.type # "function"
  THEN [ret |-> TypeError, inv |-> <<>>]
  ELSE [ret |-> IF f.async THEN Pending(Eval(f.body, x)) ELSE Eval(f.body, x),
        inv |-> <<[fn |-> f, arg |-> x]>>]

\* a method that returns v without calling anything
Ret(v) == [ret |-> v, inv |-> <<>>]

\* a method that calls f(x) and returns wrap(result); a throw inside f
\* propagates out of the method
ThenRet(c, v) == IF IsThrow(c.ret) THEN c ELSE [ret |-> v, inv |-> c.inv]

\* ------------------------------------------------ Just(j): the sync methods
\* a Just whose map applies the function to its own result again
Just_map_Twice(j, f) ==
  LET c == Invoke(f, j)
      c2 == Invoke(f, c.ret)
  IN IF IsThrow(c.ret) THEN c
     ELSE ThenRet([ret |-> c2.ret, inv |-> c.inv \o c2.inv], Just(c2.ret))
Just_map(j, f) == LET c == Invoke(f, j) IN ThenRet(c, Just(c.ret))
\* a bind that wraps what the function returned, as map does
Just_bind_Wrapping(j, f) == LET c == Invoke(f, j) IN ThenRet(c, Just(c.ret))
Just_bind(j, f) == Invoke(f, j)
Just_fold(j, t, f) == Invoke(f, j)
Just_onJust(j, f) == LET c == Invoke(f, j) IN ThenRet(c, Just(j))
Just_onNothing(j, f) == Ret(Just(j))
Just_otherwise(j, t) == Ret(j)
Just_isJust(j) == TRUE
Just_isNothing(j) == FALSE
Just_toEither(j, l) == Ret(Right(j))

\* ------------------------------------------------ Nothing(): the sync methods
Nothing_map(f) == Ret(Nothing)
Nothing_bind(f) == Ret(Nothing)
Nothing_fold(j, f) == Ret(j)
Nothing_onJust(f) == Ret(Nothing)
Nothing_onNothing(f) == LET c == Invoke(f, Undefined) IN ThenRet(c, Nothing)
Nothing_otherwise(j) == Ret(j)
Nothing_isJust == FALSE
Nothing_isNothing == TRUE
\* a Nothing whose toEither succeeds with the reason as its value
Nothing_toEither_Right(l) == Ret(Right(l))
Nothing_toEither(l) == Ret(Left(l))

\* ------------------------------------------------ Right(r): the sync methods
\* a Right whose map rewraps with the constructor of the other container
Right_map_AsJust(r, f) == LET c == Invoke(f, r) IN ThenRet(c, Just(c.ret))
Right_map(r, f) == LET c == Invoke(f, r) IN ThenRet(c, Right(c.ret))
\* a Right whose mapLeft calls the function before it returns
Right_mapLeft_Invoking(r, f) == LET c == Invoke(f, r) IN ThenRet(c, Right(r))
Right_mapLeft(r, f) == Ret(Right(r))
Right_bind(r, f) == Invoke(f, r)
Right_fold(r, g, f) == Invoke(f, r)
Right_otherwise(r, d) == Ret(r)
Right_onRight(r, f) == LET c == Invoke(f, r) IN ThenRet(c, Right(r))
Right_onLeft(r, f) == Ret(Right(r))
Right_fromRight(r, d) == Ret(r)
Right_fromLeft(r, d) == Ret(d)
Right_toMaybe(r) == Ret(Just(r))
Right_isRight(r) == TRUE
Right_isLeft(r) == FALSE

\* ------------------------------------------------- Left(l): the sync methods
Left_map(l, f) == Ret(Left(l))
\* a mapLeft that turns the transformed reason into a success
Left_mapLeft_Recovering(l, f) == LET c == Invoke(f, l) IN ThenRet(c, Right(c.ret))
Left_mapLeft(l, f) == LET c == Invoke(f, l) IN ThenRet(c, Left(c.ret))
\* a Left whose bind runs the function, as a Right's does
Left_bind_Invoking(l, f) == Invoke(f, l)
Left_bind(l, f) == Ret(Left(l))
Left_fold(l, f, g) == Invoke(f, l)
Left_otherwise(l, d) == Ret(d)
Left_onRight(l, f) == Ret(Left(l))
\* an onLeft that returns a Left of what the callback returned
Left_onLeft_Result(l, f) == LET c == Invoke(f, l) IN ThenRet(c, Left(c.ret))
Left_onLeft(l, f) == LET c == Invoke(f, l) IN ThenRet(c, Left(l))
Left_fromRight(l, d) == Ret(d)
\* a fromLeft that answers with the default on a Left as well
Left_fromLeft_Default(l, d) == Ret(d)
Left_fromLeft(l, d) == Ret(l)
\* a toMaybe that keeps the reason of a Left as a value
Left_toMaybe_Keeping(l) == Ret(Just(l))
Left_toMaybe(l) == Ret(Nothing)
\* a Left that also answers true to isRight
Left_isRight_Always(l) == TRUE
Left_isRight(l) == FALSE
Left_isLeft(l) == TRUE

\* ------------------------- the first Just / Nothing of src/maybe.ts (legacy)
\* fold takes (f, onNothing) and wraps its result in a Just
JustV0_fold(t, f, d) == LET c == Invoke(f, t) IN ThenRet(c, Just(c.ret))
NothingV0_fold(f, t) == Ret(Just(t))

\* ---------------------------------------------- m.method(...): the dispatch
\* a container is the object literal its constructor built, so a method call
\* runs the closure of that constructor
map(m, f) ==
  CASE m.type = "Just" -> Just_map(m.value, f)
    [] m.type = "Nothing" -> Nothing_map(f)
    [] m.type = "Right" -> Right_map(m.value, f)
    [] m.type = "Left" -> Left_map(m.reason, f)

bind(m, f) ==
  CASE m.type = "Just" -> Just_bind(m.value, f)
    [] m.type = "Nothing" -> Nothing_bind(f)
    [] m.type = "Right" -> Right_bind(m.value, f)
    [] m.type = "Left" -> Left_bind(m.reason, f)

fold(m, a, b) ==
  CASE m.type = "Just" -> Just_fold(m.value, a, b)
    [] m.type = "Nothing" -> Nothing_fold(a, b)
    [] m.type = "Right" -> Right_fold(m.value, a, b)
    [] m.type = "Left" -> Left_fold(m.reason, a, b)

foldV0(m, a, b) ==
  CASE m.type = "Just" -> JustV0_fold(m.value, a, b)
    [] m.type = "Nothing" -> NothingV0_fold(a, b)

mapLeft(m, f) ==
  CASE m.type = "Right" -> Right_mapLeft(m.value, f)
    [] m.type = "Left" -> Left_mapLeft(m.reason, f)

fromRight(m, d) ==
  CASE m.type = "Right" -> Right_fromRight(m.value, d)
    [] m.type = "Left" -> Left_fromRight(m.reason, d)

fromLeft(m, d) ==
  CASE m.type = "Right" -> Right_fromLeft(m.value, d)
    [] m.type = "Left" -> Left_fromLeft(m.reason, d)

otherwise(m, d) ==
  CASE m.type = "Just" -> Just_otherwise(m.value, d)
    [] m.type = "Nothing" -> Nothing_otherwise(d)
    [] m.type = "Right" -> Right_otherwise(m.value, d)
    [] m.type = "Left" -> Left_otherwise(m.reason, d)

onJust(m, f) ==
  CASE m.type = "Just" -> Just_onJust(m.value, f)
    [] m.type = "Nothing" -> Nothing_onJust(f)

onNothing(m, f) ==
  CASE m.type = "Just" -> Just_onNothing(m.value, f)
    [] m.type = "Nothing" -> Nothing_onNothing(f)

onRight(m, f) ==
  CASE m.type = "Right" -> Right_onRight(m.value, f)
    [] m.type = "Left" -> Left_onRight(m.reason, f)

onLeft(m, f) ==
  CASE m.type = "Right" -> Right_onLeft(m.value, f)
    [] m.type = "Left" -> Left_onLeft(m.reason, f)

toMaybe(m) ==
  CASE m.type = "Right" -> Right_toMaybe(m.value)
    [] m.type = "Left" -> Left_toMaybe(m.reason)

toEither(m, l) ==
  CASE m.type = "Just" -> Just_toEither(m.value, l)
    [] m.type = "Nothing" -> Nothing_toEither(l)

isJust(m) ==
  CASE m.type = "Just" -> Just_isJust(m.value)
    [] m.type = "Nothing" -> Nothing_isJust

isNothing(m) ==
  CASE m.type = "Just" -> Just_isNothing(m.value)
    [] m.type = "Nothing" -> Nothing_isNothing

isRight(m) ==
  CASE m.type = "Right" -> Right_isRight(m.value)
    [] m.type = "Left" -> Left_isRight(m.reason)

isLeft(m) ==
  CASE m.type = "Right" -> Right_isLeft(m.value)
    [] m.type = "Left" -> Left_isLeft(m.reason)

\* ------------------------------------------------------- the async methods
\* The synchronous part of a call of an async arrow function: it runs until
\* it throws, returns a value, or reaches its await.  k names what the
\* function does with the awaited value when it resumes.
AThrow(c) == [inv |-> c.inv, outcome |-> "throw", value |-> c.ret.error, k |-> "id"]
AReturn(v) == [inv |-> <<>>, outcome |-> "return", value |-> v, k |-> "id"]
Await(c, k) ==
  IF IsThrow(c.ret) THEN AThrow(c)
  ELSE [inv |-> c.inv, outcome |-> "await", value |-> c.ret, k |-> k]

\* Promise.resolve(v)
PromiseResolve(v) == IF IsPromise(v) THEN v ELSE Fulfilled(v)

\* a mapAsync that wraps the promise of f(j) without awaiting it
Just_mapAsync_NoAwait(j, f) ==
  LET c == Invoke(f, j) IN
    IF IsThrow(c.ret) THEN AThrow(c)
    ELSE [inv |-> c.inv, outcome |-> "return", value |-> Just(c.ret), k |-> "id"]
Just_mapAsync(j, f) == Await(Invoke(f, j), "Just")
Just_bindAsync(j, f) == Await(Invoke(f, j), "id")
Just_foldAsync(j, t, f) == Await(Invoke(f, j), "id")

Nothing_mapAsync(f) == AReturn(PromiseResolve(Nothing))
Nothing_bindAsync(f) == AReturn(PromiseResolve(Nothing))
\* a Nothing whose foldAsync runs the function on the default
Nothing_foldAsync_Calling(j, f) == Await(Invoke(f, j), "id")
Nothing_foldAsync(j, f) == AReturn(PromiseResolve(j))

Right_mapAsync(r, f) == Await(Invoke(f, r), "Right")
Right_bindAsync(r, f) == Await(Invoke(f, r), "id")
Right_foldAsync(r, g, f) == Await(Invoke(f, r), "id")

Left_mapAsync(l, f) == AReturn(PromiseResolve(Left(l)))
Left_bindAsync(l, f) == AReturn(PromiseResolve(Left(l)))
\* a Left whose foldAsync runs the function meant for a Right
Left_foldAsync_Second(l, f, g) == Await(Invoke(g, l), "id")
Left_foldAsync(l, f, g) == Await(Invoke(f, l), "id")

\* what the resumed function returns for the awaited value u
Kont(k, u) ==
  CASE k = "Just" -> Just(u)
    [] k = "Right" -> Right(u)
    [] k = "id" -> u

mapAsync(m, f) ==
  CASE m.type = "Just" -> Just_mapAsync(m.value, f)
    [] m.type = "Nothing" -> Nothing_mapAsync(f)
    [] m.type = "Right" -> Right_mapAsync(m.value, f)
    [] m.type = "Left" -> Left_mapAsync(m.reason, f)

bindAsync(m, f) ==
  CASE m.type = "Just" -> Just_bindAsync(m.value, f)
    [] m.type = "Nothing" -> Nothing_bindAsync(f)
    [] m.type = "Right" -> Right_bindAsync(m.value, f)
    [] m.type = "Left" -> Left_bindAsync(m.reason, f)

foldAsync(m, a, b) ==
  CASE m.type = "Just" -> Just_foldAsync(m.value, a, b)
    [] m.type = "Nothing" -> Nothing_foldAsync(a, b)
    [] m.type = "Right" -> Right_foldAsync(m.value, a, b)
    [] m.type = "Left" -> Left_foldAsync(m.reason, a, b)

\* ------------------------------------------------------------------- state
VARIABLES
  lib,     \* which Just / Nothing built the Maybes: "current" or "legacy"
  init,    \* the container the client constructed
  cur,     \* the value the client holds: a container, a bare value, a throw
  ops,     \* the names of the methods called so far, in order
  calls,   \* how many times a caller-supplied function has been invoked
  last,    \* the most recent call: receiver, arguments, result, invocations
  outer,   \* the promise an async method returned, while the client awaits
  inner,   \* the promise the async method itself awaits
  susp,    \* what the suspended async method does when it resumes
  jobs,    \* the microtask queue
  coll     \* the most recent call of a list helper

vars == <<lib, init, cur, ops, calls, last, outer, inner, susp, jobs, coll>>
chainVars == <<lib, init, cur, ops, calls, last, outer, inner, susp, jobs>>
asyncVars == <<outer, inner, susp, jobs>>

\* ------------------------------------------------- the arguments a client uses
MapFns == {Fn(<<"id">>), Fn(<<"inc">>), Fn(<<"zero">>)}
AsyncMapFns == {AsyncFn(<<"id">>), AsyncFn(<<"inc">>)}
Probe == Fn(<<"noop">>)
BindFns(m) ==
  IF IsMaybe(m) THEN {Fn(<<"inc", "just">>), Fn(<<"nothing">>)}
  ELSE {Fn(<<"inc", "right">>), Fn(<<"left">>)}
AsyncBindFns(m) ==
  IF IsMaybe(m) THEN {AsyncFn(<<"inc", "just">>), AsyncFn(<<"nothing">>)}
  ELSE {AsyncFn(<<"inc", "right">>), AsyncFn(<<"left">>)}

Containers ==
  {Nothing} \cup {Just(v) : v \in Vals} \cup {Right(v) : v \in Vals}
    \cup {Left(v) : v \in Vals}

NoCall == [op |-> "none"]
NoColl == [op |-> "none"]

Init ==
  /\ init \in Containers
  /\ lib \in {"current", "legacy"}
  /\ lib = "legacy" => IsMaybe(init)
  /\ cur = init
  /\ ops = <<>>
  /\ calls = 0
  /\ last = NoCall
  /\ outer = NoPromise
  /\ inner = NoPromise
  /\ susp = "none"
  /\ jobs = <<>>
  /\ coll = NoColl

\* the client holds a container and may call a method on it
Ready == IsContainer(cur) /\ outer = NoPromise /\ Len(ops) < MaxChain
\* the method is one the current containers have
Current == IsMaybe(cur) => lib = "current"

\* a synchronous method call whose outcome is c
Step(op, args, c) ==
  /\ cur' = c.ret
  /\ ops' = Append(ops, op)
  /\ calls' = calls + Len(c.inv)
  /\ last' = [op |-> op, recv |-> cur, args |-> args, ret |-> c.ret, inv |-> c.inv]
  /\ UNCHANGED <<lib, init, asyncVars, coll>>

Map ==
  /\ Ready
  /\ \E f \in MapFns : Step("map", <<f>>, map(cur, f))

Bind ==
  /\ Ready
  /\ \E f \in BindFns(cur) : Step("bind", <<f>>, bind(cur, f))

\* fold(a, b): a plain default or a function first, a function second; the
\* legacy Maybe is also called in its own order, function first
Fold ==
  /\ Ready
  /\ \/ /\ lib = "current" \/ IsEither(cur)
        /\ \E a \in Vals \cup (IF IsEither(cur) THEN MapFns ELSE {}), b \in MapFns :
             Step("fold", <<a, b>>, fold(cur, a, b))
     \/ /\ lib = "legacy" /\ IsMaybe(cur)
        /\ \E d \in Vals, f \in MapFns :
             \/ Step("fold", <<d, f>>, foldV0(cur, d, f))
             \/ Step("fold", <<f, d>>, foldV0(cur, f, d))

Otherwise ==
  /\ Ready /\ Current
  /\ \E d \in Vals : Step("otherwise", <<d>>, otherwise(cur, d))

OnJust ==
  /\ Ready /\ IsMaybe(cur)
  /\ Step("onJust", <<Probe>>, onJust(cur, Probe))

OnNothing ==
  /\ Ready /\ IsMaybe(cur)
  /\ Step("onNothing", <<Probe>>, onNothing(cur, Probe))

OnRight ==
  /\ Ready /\ IsEither(cur)
  /\ Step("onRight", <<Probe>>, onRight(cur, Probe))

OnLeft ==
  /\ Ready /\ IsEither(cur)
  /\ Step("onLeft", <<Probe>>, onLeft(cur, Probe))

MapLeft ==
  /\ Ready /\ IsEither(cur)
  /\ \E f \in MapFns : Step("mapLeft", <<f>>, mapLeft(cur, f))

FromRight ==
  /\ Ready /\ IsEither(cur)
  /\ \E d \in Vals : Step("fromRight", <<d>>, fromRight(cur, d))

FromLeft ==
  /\ Ready /\ IsEither(cur)
  /\ \E d \in Vals : Step("fromLeft", <<d>>, fromLeft(cur, d))

ToMaybe ==
  /\ Ready /\ IsEither(cur)
  /\ Step("toMaybe", <<>>, toMaybe(cur))

ToEither ==
  /\ Ready /\ IsMaybe(cur) /\ lib = "current"
  /\ \E l \in Vals : Step("toEither", <<l>>, toEither(cur, l))

\* ------------------------------------------------------ the async machinery
PendingOuter == [type |-> "promise", state |-> "pending"]
Settled(p) == IsPromise(p) /\ p.state # "pending"

\* The call of an async method whose synchronous part is s.  The promise it
\* returns is rejected if the body threw, fulfilled if the body returned a
\* value that is not a promise, and pending otherwise: a returned promise is
\* adopted through a microtask, an await resumes through a microtask.
StartAsync(op, args, s) ==
  LET awaited == PromiseResolve(s.value)
      p == CASE s.outcome = "throw" -> Rejected(s.value)
             [] s.outcome = "return" /\ ~IsPromise(s.value) -> Fulfilled(s.value)
             [] OTHER -> PendingOuter
  IN /\ outer' = p
     /\ inner' = IF s.outcome = "await" THEN awaited ELSE NoPromise
     /\ susp' = IF s.outcome = "await" THEN s.k ELSE "none"
     /\ jobs' = CASE s.outcome = "return" /\ IsPromise(s.value) ->
                       <<[job |-> "resolveThenable", thenable |-> s.value]>>
                  [] s.outcome = "await" /\ Settled(awaited) -> <<[job |-> "resume"]>>
                  [] OTHER -> <<>>
     /\ ops' = Append(ops, op)
     /\ calls' = calls + Len(s.inv)
     /\ last' = [op |-> op, recv |-> cur, args |-> args, ret |-> p, inv |-> s.inv]
     /\ UNCHANGED <<lib, init, cur, coll>>

MapAsync ==
  /\ Ready /\ Current
  /\ \E f \in AsyncMapFns : StartAsync("mapAsync", <<f>>, mapAsync(cur, f))

BindAsync ==
  /\ Ready /\ Current
  /\ \E f \in AsyncBindFns(cur) : StartAsync("bindAsync", <<f>>, bindAsync(cur, f))

FoldAsync ==
  /\ Ready /\ Current
  /\ \E a \in Vals \cup (IF IsEither(cur) THEN AsyncMapFns ELSE {}), b \in AsyncMapFns :
       StartAsync("foldAsync", <<a, b>>, foldAsync(cur, a, b))

\* the promise the caller's function returned settles: it fulfils with the
\* function's result or rejects with some reason
SettleInner ==
  /\ IsPromise(inner) /\ inner.state = "pending"
  /\ \/ inner' = Fulfilled(inner.will)
     \/ \E r \in Vals : inner' = Rejected(r)
  /\ jobs' = Append(jobs, [job |-> "resume"])
  /\ UNCHANGED <<lib, init, cur, ops, calls, last, outer, susp, coll>>

\* a resumption that catches the rejection and answers with the failing case
Resume_Catching(k, p) ==
  IF p.state = "fulfilled" THEN Fulfilled(Kont(k, p.value))
  ELSE Fulfilled(IF k = "Right" THEN Left(p.reason) ELSE Nothing)
\* the suspended method resumes at its await on the settled promise p: the
\* await yields the value and the method returns Kont(k, value), or the
\* await throws the reason, which nothing in the method catches
Resume(k, p) ==
  IF p.state = "fulfilled" THEN Fulfilled(Kont(k, p.value))
  ELSE Rejected(p.reason)

\* the event loop runs the first microtask
RunJob ==
  /\ jobs # <<>>
  /\ LET j == Head(jobs) IN
       \/ /\ j.job = "resume"
          /\ outer' = Resume(susp, inner)
          /\ inner' = NoPromise
          /\ susp' = "none"
          /\ jobs' = Tail(jobs)
       \/ /\ j.job = "resolveThenable"
          /\ jobs' = Append(Tail(jobs), [job |-> "settle", with |-> j.thenable])
          /\ UNCHANGED <<outer, inner, susp>>
       \/ /\ j.job = "settle"
          /\ outer' = j.with
          /\ jobs' = Tail(jobs)
          /\ UNCHANGED <<inner, susp>>
  /\ UNCHANGED <<lib, init, cur, ops, calls, last, coll>>

\* the client's await of the returned promise completes
ClientResume ==
  /\ Settled(outer) /\ jobs = <<>>
  /\ cur' = IF outer.state = "fulfilled" THEN outer.value ELSE Throw(outer.reason)
  /\ outer' = NoPromise
  /\ UNCHANGED <<lib, init, ops, calls, last, inner, susp, jobs, coll>>

Next ==
  \/ Map \/ Bind \/ Fold \/ Otherwise
  \/ OnJust \/ OnNothing \/ OnRight \/ OnLeft \/ ToMaybe \/ ToEither
  \/ MapLeft \/ FromRight \/ FromLeft
  \/ MapAsync \/ BindAsync \/ FoldAsync
  \/ SettleInner \/ RunJob \/ ClientResume

Spec == Init /\ [][Next]_vars

\* a client that chains the async methods only, and an event loop that runs
\* every queued microtask
NextAsync ==
  \/ MapAsync \/ BindAsync \/ FoldAsync
  \/ SettleInner \/ RunJob \/ ClientResume

SpecAsync == Init /\ [][NextAsync]_vars

FairSpecAsync == SpecAsync /\ WF_vars(RunJob)

\* ---------------------------------------------------------- the list helpers
\* rights: es.reduce over e.fold(() => acc, (r) => [...acc, r]); a Right's
\* fold runs the second closure, a Left's fold the first
RECURSIVE rightsReduce(_, _)
rightsReduce(es, acc) ==
  IF es = <<>> THEN acc
  ELSE LET e == Head(es) IN
       rightsReduce(Tail(es),
                    IF e.type = "Right" THEN Append(acc, e.value) ELSE acc)

rights(es) == Arr(rightsReduce(es, <<>>))

\* an all-or-nothing rightsOr: the default as soon as one element is a Left
rightsOr_AllOrNothing(es, onAllLefts) ==
  LET allRights == rights(es) IN
  IF Len(allRights.items) < Len(es) \/ es = <<>> THEN Left(onAllLefts)
  ELSE Right(allRights)
rightsOr(es, onAllLefts) ==
  LET allRights == rights(es) IN
  IF Len(allRights.items) = 0 THEN Left(onAllLefts) ELSE Right(allRights)

\* the for loop of sequenceEither: rs is what has been pushed so far
RECURSIVE sequenceEitherLoop(_, _)
sequenceEitherLoop(es, rs) ==
  IF es = <<>> THEN Right(Arr(rs))
  ELSE LET e == Head(es) IN
       IF isLeft(e) THEN Left(e.reason)
       ELSE sequenceEitherLoop(Tail(es), Append(rs, e.value))

\* a sequence that keeps going after a Left and reports the last one
RECURSIVE lastLeftLoop(_, _, _)
lastLeftLoop(es, rs, seen) ==
  IF es = <<>> THEN (IF seen.type = "Left" THEN seen ELSE Right(Arr(rs)))
  ELSE LET e == Head(es) IN
       IF e.type = "Left" THEN lastLeftLoop(Tail(es), rs, Left(e.reason))
       ELSE lastLeftLoop(Tail(es), Append(rs, e.value), seen)
sequenceEither_LastLeft(es) == lastLeftLoop(es, <<>>, Undefined)
sequenceEither(es) == sequenceEitherLoop(es, <<>>)

\* the for loop of mergeEither: rs is what has been pushed so far
RECURSIVE mergeEitherLoop(_, _)
mergeEitherLoop(es, rs) ==
  IF es = <<>> THEN rs
  ELSE LET e == Head(es) IN
       mergeEitherLoop(Tail(es), IF isRight(e) THEN Append(rs, e.value) ELSE rs)

\* a mergeEither without the test for an empty result
mergeEither_NeverLeft(es, errorOnAllFailure) == Right(Arr(mergeEitherLoop(es, <<>>)))
mergeEither(es, errorOnAllFailure) ==
  LET rs == mergeEitherLoop(es, <<>>) IN
    IF Len(rs) = 0 THEN Left(errorOnAllFailure) ELSE Right(Arr(rs))

\* lefts: es.reduce; a Right leaves acc as it is, a Left adds its reason
RECURSIVE leftsReduce(_, _)
leftsReduce(es, acc) ==
  IF es = <<>> THEN acc
  ELSE LET e == Head(es) IN
       leftsReduce(Tail(es), IF isRight(e) THEN acc ELSE Append(acc, e.reason))

\* a lefts that collects the other side
lefts_Rights(es) == rights(es)
lefts(es) == Arr(leftsReduce(es, <<>>))

\* the for loop of firstRight: the first element whose isRight() is true
RECURSIVE firstRightLoop(_, _)
firstRightLoop(es, onAllLeft) ==
  IF es = <<>> THEN Left(onAllLeft)
  ELSE IF isRight(Head(es)) THEN Head(es)
       ELSE firstRightLoop(Tail(es), onAllLeft)

\* a firstRight that keeps looking and returns the last Right it saw
firstRight_Last(es, onAllLeft) ==
  LET S == {i \in 1..Len(es) : isRight(es[i])} IN
    IF S = {} THEN Left(onAllLeft)
    ELSE es[CHOOSE i \in S : \A j \in S : j <= i]
firstRight(es, onAllLeft) == firstRightLoop(es, onAllLeft)

\* justs: ms.reduce over m.fold(acc, (j) => [...acc, j]); a Just's fold runs
\* the closure, a Nothing's fold returns acc
RECURSIVE justsReduce(_, _)
justsReduce(ms, acc) ==
  IF ms = <<>> THEN acc
  ELSE LET m == Head(ms) IN
       justsReduce(Tail(ms),
                   IF m.type = "Just" THEN Append(acc, m.value) ELSE acc)

\* a justs whose closure is (j) => [j, ...acc]
justs_Prepending(ms) ==
  LET js == justsReduce(ms, <<>>) IN
    Arr([i \in 1..Len(js) |-> js[Len(js) + 1 - i]])
justs(ms) == Arr(justsReduce(ms, <<>>))

\* the for loop of sequenceMaybe: js is what has been pushed so far
RECURSIVE sequenceMaybeLoop(_, _)
sequenceMaybeLoop(ms, js) ==
  IF ms = <<>> THEN Just(Arr(js))
  ELSE LET m == Head(ms) IN
       IF isNothing(m) THEN Nothing
       ELSE sequenceMaybeLoop(Tail(ms), Append(js, m.value))

\* a sequenceMaybe that skips the Nothings and keeps the values it found
sequenceMaybe_Partial(ms) == Just(justs(ms))
sequenceMaybe(ms) == sequenceMaybeLoop(ms, <<>>)

\* justsOrNothing of src/maybe.ts: the same loop under its former name
RECURSIVE justsOrNothingLoop(_, _)
justsOrNothingLoop(ms, js) ==
  IF ms = <<>> THEN Just(Arr(js))
  ELSE LET m == Head(ms) IN
       IF isNothing(m) THEN Nothing
       ELSE justsOrNothingLoop(Tail(ms), Append(js, m.value))

justsOrNothing(ms) == justsOrNothingLoop(ms, <<>>)

\* the for loop of firstJust: the first element whose isJust() is true
RECURSIVE firstJustLoop(_)
firstJustLoop(ms) ==
  IF ms = <<>> THEN Nothing
  ELSE IF isJust(Head(ms)) THEN Head(ms) ELSE firstJustLoop(Tail(ms))

firstJust(ms) == firstJustLoop(ms)

\* filterMaybes: ms.reduce; each step calls predicate(m) and keeps m itself
\* when the result's isJust() is true.  c is [ret, inv] so far.
RECURSIVE filterMaybesReduce(_, _, _)
filterMaybesReduce(ms, predicate, c) ==
  IF ms = <<>> THEN c
  ELSE LET m == Head(ms)
           value == Invoke(predicate, m)
       IN IF IsThrow(value.ret) THEN [ret |-> value.ret, inv |-> c.inv \o value.inv]
          ELSE filterMaybesReduce(Tail(ms), predicate,
                 [ret |-> IF isJust(value.ret) THEN Arr(Append(c.ret.items, m))
                          ELSE c.ret,
                  inv |-> c.inv \o value.inv])

\* a filterMaybes that keeps what the predicate's Just carries
filterMaybes_Carried(ms, predicate) ==
  LET c == filterMaybesReduce(ms, predicate, [ret |-> Arr(<<>>), inv |-> <<>>])
  IN [ret |-> Arr([i \in 1..Len(c.ret.items) |->
                     Invoke(predicate, c.ret.items[i]).ret.value]),
      inv |-> c.inv]
filterMaybes(ms, predicate) ==
  filterMaybesReduce(ms, predicate, [ret |-> Arr(<<>>), inv |-> <<>>])

\* the lists of at most MaxLen elements of S
ListsOf(S) == UNION {[1..n -> S] : n \in 0..MaxLen}
Eithers == {Right(v) : v \in Vals} \cup {Left(v) : v \in Vals}
Maybes == {Nothing} \cup {Just(v) : v \in Vals}
Predicates == {Fn(<<"inc", "just">>), Fn(<<"nothing">>), Fn(<<"positive">>)}

\* what a client has at hand before it calls a list helper: a list of
\* Eithers and a default reason, a list of Maybes, or a list of plain values
\* and a predicate
CollInputs ==
  {[op |-> "none", kind |-> "either", es |-> es, d |-> d, f |-> Probe] :
     es \in ListsOf(Eithers), d \in Vals}
  \cup {[op |-> "none", kind |-> "maybe", es |-> ms, d |-> Undefined, f |-> Probe] :
          ms \in ListsOf(Maybes)}
  \cup {[op |-> "none", kind |-> "plain", es |-> xs, d |-> Undefined, f |-> p] :
          xs \in ListsOf(Vals), p \in Predicates}

\* the client has its inputs at hand and has called no helper yet
InitColl ==
  /\ init = Nothing
  /\ lib = "current"
  /\ cur = init
  /\ ops = <<>>
  /\ calls = 0
  /\ last = NoCall
  /\ outer = NoPromise
  /\ inner = NoPromise
  /\ susp = "none"
  /\ jobs = <<>>
  /\ coll \in CollInputs

\* the call of a list helper on the list at hand, with result r
CallColl(op, r) ==
  /\ coll.op = "none"
  /\ coll' = [coll EXCEPT !.op = op] @@ [ret |-> r, inv |-> <<>>]
  /\ UNCHANGED chainVars

CallRights == coll.kind = "either" /\ CallColl("rights", rights(coll.es))

CallRightsOr == coll.kind = "either" /\ CallColl("rightsOr", rightsOr(coll.es, coll.d))

CallSequenceEither ==
  coll.kind = "either" /\ CallColl("sequenceEither", sequenceEither(coll.es))

CallMergeEither ==
  coll.kind = "either" /\ CallColl("mergeEither", mergeEither(coll.es, coll.d))

CallLefts == coll.kind = "either" /\ CallColl("lefts", lefts(coll.es))

CallFirstRight ==
  coll.kind = "either" /\ CallColl("firstRight", firstRight(coll.es, coll.d))

CallJusts == coll.kind = "maybe" /\ CallColl("justs", justs(coll.es))

CallSequenceMaybe ==
  coll.kind = "maybe" /\ CallColl("sequenceMaybe", sequenceMaybe(coll.es))

CallJustsOrNothing ==
  coll.kind = "maybe" /\ CallColl("justsOrNothing", justsOrNothing(coll.es))

CallFirstJust == coll.kind = "maybe" /\ CallColl("firstJust", firstJust(coll.es))

\* filterMaybes also calls the predicate: inv is the list of its invocations
CallFilterMaybes ==
  /\ coll.kind = "plain"
  /\ coll.op = "none"
  /\ LET c == filterMaybes(coll.es, coll.f) IN
       coll' = [coll EXCEPT !.op = "filterMaybes"] @@ [ret |-> c.ret, inv |-> c.inv]
  /\ UNCHANGED chainVars

NextColl ==
  \/ CallRights \/ CallRightsOr \/ CallSequenceEither \/ CallLefts
  \/ CallFirstRight \/ CallJusts \/ CallSequenceMaybe \/ CallJustsOrNothing
  \/ CallFirstJust \/ CallFilterMaybes \/ CallMergeEither

SpecColl == InitColl /\ [][NextColl]_vars

\* ------------------------------------------------ the construction helpers
IsNullish(x) == x = Null \/ x = Undefined
\* what JavaScript takes for false in a condition
Falsy(x) == IsNullish(x) \/ x = Num(0) \/ x = Str("") \/ x = Bool(FALSE)

\* a nullableToMaybe that tests the truthiness of j
nullableToMaybe_Falsy(j) == Ret(IF Falsy(j) THEN Nothing ELSE Just(j))
nullableToMaybe(j) == Ret(IF IsNullish(j) THEN Nothing ELSE Just(j))

nullableToEither(r, onNullable) ==
  Ret(IF IsNullish(r) THEN Left(onNullable) ELSE Right(r))

\* try { return Just(f()) } catch (_e) { return Nothing() }
maybeFromTry(f) ==
  LET c == Invoke(f, Undefined) IN
    [ret |-> IF IsThrow(c.ret) THEN Nothing ELSE Just(c.ret), inv |-> c.inv]

\* an eitherFromTry whose Left carries what was caught
eitherFromTry_Caught(f, onCatch) ==
  LET c == Invoke(f, Undefined) IN
    [ret |-> IF IsThrow(c.ret) THEN Left(c.ret.error) ELSE Right(c.ret),
     inv |-> c.inv]
\* try { return Right(f()) } catch (_e) { return Left(onCatch) }
eitherFromTry(f, onCatch) ==
  LET c == Invoke(f, Undefined) IN
    [ret |-> IF IsThrow(c.ret) THEN Left(onCatch) ELSE Right(c.ret),
     inv |-> c.inv]

\* the promise a reaction returns, settled by what its handler did
SettleWith(r) == IF IsThrow(r) THEN Rejected(r.error) ELSE Fulfilled(r)

\* p.then(onFulfilled), once p has settled: a rejection passes through
PromiseThen(p, onFulfilled) ==
  IF p.state = "fulfilled" THEN SettleWith(Invoke(onFulfilled, p.value).ret)
  ELSE p

\* a catch that has no handler for the rejection
PromiseCatch_Passing(p, onRejected) == p
\* p.catch(onRejected), once p has settled: a fulfilment passes through
PromiseCatch(p, onRejected) ==
  IF p.state = "rejected" THEN SettleWith(Invoke(onRejected, p.reason).ret)
  ELSE p

\* the async helpers await p.then(..).catch(..): k names the reaction that
\* waits on the promise at hand
eitherFromPromise(p) == Await(Ret(p), "then.Right")
maybeFromPromise(p) == Await(Ret(p), "then.Just")

ReactStages == {"then.Right", "catch.Left", "then.Just", "catch.Nothing"}

\* the promise the reaction k returns for the settled promise p
Reaction(k, p) ==
  CASE k = "then.Right" -> PromiseThen(p, Fn(<<"right">>))
    [] k = "catch.Left" -> PromiseCatch(p, Fn(<<"left">>))
    [] k = "then.Just" -> PromiseThen(p, Fn(<<"just">>))
    [] k = "catch.Nothing" -> PromiseCatch(p, Fn(<<"nothing">>))

\* what waits on the promise that the reaction k returns
After(k) ==
  CASE k = "then.Right" -> "catch.Left"
    [] k = "then.Just" -> "catch.Nothing"
    [] OTHER -> "id"

\* the values a client may hold: numbers, null, undefined, strings, booleans
Nullables ==
  Vals \cup {Null, Undefined, Str(""), Str("a"), Bool(FALSE), Bool(TRUE)}
\* functions of no argument: three return, three throw
Thunks ==
  {Fn(<<"zero">>), Fn(<<"zero", "inc">>), Fn(<<"noop">>), Fn(<<"raise">>),
   Fn(<<"zero", "raise">>), Fn(<<"zero", "inc", "raise">>)}
\* what a promise may settle with: a number, or undefined (a Promise<void>,
\* a reject() without a reason)
Outcomes == Vals \cup {Undefined}
\* the promises a client may pass: not settled yet, fulfilled, rejected
Promises ==
  {Pending(v) : v \in Outcomes} \cup {Fulfilled(v) : v \in Outcomes}
    \cup {Rejected(v) : v \in Outcomes}

\* the client holds nothing yet
InitCons ==
  /\ init = Undefined
  /\ lib = "current"
  /\ cur = init
  /\ ops = <<>>
  /\ calls = 0
  /\ last = NoCall
  /\ outer = NoPromise
  /\ inner = NoPromise
  /\ susp = "none"
  /\ jobs = <<>>
  /\ coll = NoColl

Fresh == ops = <<>> /\ outer = NoPromise

NullableToMaybe ==
  /\ Fresh
  /\ \E j \in Nullables : Step("nullableToMaybe", <<j>>, nullableToMaybe(j))

NullableToEither ==
  /\ Fresh
  /\ \E r \in Nullables, d \in Vals :
       Step("nullableToEither", <<r, d>>, nullableToEither(r, d))

MaybeFromTry ==
  /\ Fresh
  /\ \E f \in Thunks : Step("maybeFromTry", <<f>>, maybeFromTry(f))

EitherFromTry ==
  /\ Fresh
  /\ \E f \in Thunks, d \in Vals :
       Step("eitherFromTry", <<f, d>>, eitherFromTry(f, d))

\* the call of an async helper that awaits a chain of reactions on s.value:
\* the promise it returns is pending; a reaction on a settled promise is
\* queued at once
StartChain(op, args, s) ==
  /\ outer' = PendingOuter
  /\ inner' = s.value
  /\ susp' = s.k
  /\ jobs' = IF Settled(s.value) THEN <<[job |-> "react"]>> ELSE <<>>
  /\ ops' = Append(ops, op)
  /\ calls' = calls + Len(s.inv)
  /\ last' = [op |-> op, recv |-> cur, args |-> args, ret |-> PendingOuter,
              inv |-> s.inv]
  /\ UNCHANGED <<lib, init, cur, coll>>

EitherFromPromise ==
  /\ Fresh
  /\ \E p \in Promises : StartChain("eitherFromPromise", <<p>>, eitherFromPromise(p))

MaybeFromPromise ==
  /\ Fresh
  /\ \E p \in Promises : StartChain("maybeFromPromise", <<p>>, maybeFromPromise(p))

\* the promise the client passed settles; the argument is that same promise
SettleInput ==
  /\ IsPromise(inner) /\ inner.state = "pending" /\ susp \in ReactStages
  /\ \/ inner' = Fulfilled(inner.will)
     \/ \E r \in Outcomes : inner' = Rejected(r)
  /\ last' = [last EXCEPT !.args = <<inner'>>]
  /\ jobs' = Append(jobs, [job |-> "react"])
  /\ UNCHANGED <<lib, init, cur, ops, calls, outer, susp, coll>>

\* the event loop runs a reaction: its promise settles, and what waits on
\* that promise is queued, the next reaction or the helper's own await
RunReaction ==
  /\ jobs # <<>> /\ Head(jobs).job = "react"
  /\ inner' = Reaction(susp, inner)
  /\ susp' = After(susp)
  /\ jobs' = Append(Tail(jobs),
                    [job |-> IF After(susp) = "id" THEN "resume" ELSE "react"])
  /\ UNCHANGED <<lib, init, cur, ops, calls, last, outer, coll>>

NextCons ==
  \/ NullableToMaybe \/ NullableToEither \/ MaybeFromTry \/ EitherFromTry
  \/ EitherFromPromise \/ MaybeFromPromise
  \/ SettleInput \/ RunReaction \/ RunJob \/ ClientResume

SpecCons == InitCons /\ [][NextCons]_vars

\* the event loop runs every queued microtask
FairSpecCons == SpecCons /\ WF_vars(RunReaction) /\ WF_vars(RunJob)

\* ================================================================== claims

\* the payload of a container: the value of a Just or a Right, the reason
\* of a Left, undefined for Nothing
Payload(m) ==
  CASE m.type \in {"Just", "Right"} -> m.value
    [] m.type = "Left" -> m.reason
    [] OTHER -> Undefined

XformOps == {"map", "bind", "mapAsync", "bindAsync"}
OnlyXforms == \A i \in 1..Len(ops) : ops[i] \in XformOps

\* C1: a chain of map, bind, mapAsync and bindAsync calls that starts from
\* Nothing() or Left(e) never invokes a supplied function, and what it
\* yields, at every step and through every promise, is the Nothing, or the
\* Left with the original reason, it started from.
C1_ShortCircuit ==
  (init.type \in {"Nothing", "Left"} /\ OnlyXforms) =>
    /\ calls = 0
    /\ cur = init
    /\ Settled(outer) => outer = Fulfilled(init)

C1_Witness ==
  /\ init.type = "Left"
  /\ Len(ops) >= 3
  /\ ops[1] = "mapAsync" /\ ops[2] = "bind" /\ ops[3] = "bindAsync"
  /\ outer = NoPromise
  /\ cur = init

\* the indices of the Rights, and of the Lefts, of a list
RightIdx(es) == {i \in 1..Len(es) : es[i].type = "Right"}
LeftIdx(es) == {i \in 1..Len(es) : es[i].type = "Left"}
Min(S) == CHOOSE i \in S : \A j \in S : i <= j
\* the elements of a list at the indices S, in their original order
RECURSIVE Pick(_, _)
Pick(es, S) ==
  IF S = {} THEN <<>>
  ELSE <<es[Min(S)]>> \o Pick(es, S \ {Min(S)})
ValuesOf(xs) == [i \in 1..Len(xs) |-> xs[i].value]

\* C2: sequenceEither(es) is Right of all the values, in order, exactly when
\* every element is a Right (Right([]) for the empty list); otherwise it is
\* a Left with the reason of the Left of lowest index.
C2_SequenceEither ==
  coll.op = "sequenceEither" =>
    IF LeftIdx(coll.es) = {}
    THEN coll.ret = Right(Arr(ValuesOf(coll.es)))
    ELSE coll.ret = Left(coll.es[Min(LeftIdx(coll.es))].reason)

\* two Lefts with different reasons, a Right before and between them
C2_Witness ==
  /\ coll.op = "sequenceEither"
  /\ Cardinality(LeftIdx(coll.es)) >= 2
  /\ coll.es[1].type = "Right"
  /\ \E i, j \in LeftIdx(coll.es) : i < j /\ coll.es[i].reason # coll.es[j].reason
  /\ coll.ret.type = "Left"

\* C3: rightsOr(es, d) is Right of the values of the Rights, in order, when
\* es has at least one Right, whatever Lefts it has; it is Left(d), with the
\* caller's d, exactly when es has no Right.
C3_RightsOr ==
  coll.op = "rightsOr" =>
    IF RightIdx(coll.es) = {}
    THEN coll.ret = Left(coll.d)
    ELSE coll.ret = Right(Arr(ValuesOf(Pick(coll.es, RightIdx(coll.es)))))

\* a Right after a Left: the Left is dropped and the result is a Right
C3_Witness ==
  /\ coll.op = "rightsOr"
  /\ LeftIdx(coll.es) # {} /\ RightIdx(coll.es) # {}
  /\ coll.es[1].type = "Left"
  /\ coll.ret.type = "Right"
  /\ Len(coll.ret.value.items) = Cardinality(RightIdx(coll.es))

\* C4: the two-function fold and foldAsync of an Either run exactly one of
\* the two functions, onRight on the value of a Right and onLeft on the
\* reason of a Left, and yield its result: fold returns it, foldAsync
\* fulfils with it once the function's promise has fulfilled.
C4_FoldTwoFunctions ==
  (last.op \in {"fold", "foldAsync"} /\ IsEither(last.recv)
     /\ last.args[1].type = "function") =>
    LET chosen == IF last.recv.type = "Right" THEN last.args[2] ELSE last.args[1]
        v == Payload(last.recv)
        expected == Eval(chosen.body, v)
    IN /\ last.inv = <<[fn |-> chosen, arg |-> v]>>
       /\ last.op = "fold" => last.ret = expected
       /\ last.op = "foldAsync" =>
            /\ (Settled(outer) /\ outer.state = "fulfilled") => outer.value = expected
            /\ outer = NoPromise => (cur = expected \/ IsThrow(cur))

\* a Left folded asynchronously with two functions that disagree on its reason
C4_Witness ==
  /\ last.op = "foldAsync"
  /\ last.recv.type = "Left"
  /\ last.args[1].type = "function"
  /\ outer = NoPromise
  /\ cur = Eval(last.args[1].body, last.recv.reason)
  /\ cur # Eval(last.args[2].body, last.recv.reason)

\* C5: fold and foldAsync of an Either take a plain default first:
\* Left(e).fold(d, f) returns d and Left(e).foldAsync(d, f) resolves to d,
\* without invoking f, and Right(v).fold(d, f) returns f(v).
C5_FoldDefault ==
  (last.op \in {"fold", "foldAsync"} /\ IsEither(last.recv)
     /\ last.args[1].type = "number") =>
    IF last.recv.type = "Left"
    THEN /\ last.inv = <<>>
         /\ last.op = "fold" => last.ret = last.args[1]
         /\ last.op = "foldAsync" =>
              /\ Settled(outer) => outer = Fulfilled(last.args[1])
              /\ outer = NoPromise => cur = last.args[1]
    ELSE last.op = "fold" => last.ret = Eval(last.args[2].body, last.recv.value)

\* C6: fold(d, f) of every Just and Nothing in the source returns a bare
\* value, never a container: f(v) for Just(v), and d, with f not invoked,
\* for Nothing().
C6_FoldTotal ==
  (last.op = "fold" /\ IsMaybe(last.recv) /\ last.args[1].type = "number") =>
    /\ ~IsContainer(last.ret)
    /\ IF last.recv.type = "Just"
       THEN /\ last.ret = Eval(last.args[2].body, last.recv.value)
            /\ last.inv = <<[fn |-> last.args[2], arg |-> last.recv.value]>>
       ELSE /\ last.ret = last.args[1]
            /\ last.inv = <<>>

HookOps == {"onJust", "onNothing", "onRight", "onLeft"}
HookMatches(op, m) ==
  \/ op = "onJust" /\ m.type = "Just"
  \/ op = "onNothing" /\ m.type = "Nothing"
  \/ op = "onRight" /\ m.type = "Right"
  \/ op = "onLeft" /\ m.type = "Left"

\* C7: onJust, onNothing, onRight and onLeft return a container with the tag
\* and the payload of the receiver; the callback is invoked exactly once,
\* with the held value or reason, when the receiver's variant is the hook's,
\* and not at all when it is not.
C7_Hooks ==
  last.op \in HookOps =>
    /\ last.ret = last.recv
    /\ last.inv = IF HookMatches(last.op, last.recv)
                  THEN <<[fn |-> last.args[1], arg |-> Payload(last.recv)]>>
                  ELSE <<>>

\* onLeft on a Left, after an onRight that did not fire
C7_Witness ==
  /\ last.op = "onLeft"
  /\ last.recv.type = "Left"
  /\ Len(last.inv) = 1
  /\ Len(ops) >= 2 /\ ops[Len(ops) - 1] = "onRight"
  /\ calls = 1
  /\ cur = init

Id == Fn(<<"id">>)

\* C8: map(id) returns a Just, respectively a Right, with the same value as
\* its receiver, and map of any function on Nothing() returns Nothing()
\* without invoking the function.
C8_Identity ==
  last.op = "map" =>
    /\ (last.recv.type \in {"Just", "Right"} /\ last.args[1] = Id) =>
         last.ret = last.recv
    /\ last.recv.type = "Nothing" => (last.ret = Nothing /\ last.inv = <<>>)

C8_Witness ==
  /\ last.op = "map"
  /\ last.recv.type = "Right"
  /\ last.args[1] = Id
  /\ last.inv = <<[fn |-> Id, arg |-> last.recv.value]>>
  /\ cur = last.recv

\* C9: m.map(f).map(g) has the tag and the payload of m.map(x => g(f(x))),
\* for every container m and all functions f and g.
C9_Composition ==
  (last.op = "map" /\ IsContainer(last.ret)) =>
    \A g \in MapFns :
      map(last.ret, g).ret = map(last.recv, Compose(g, last.args[1])).ret

\* a Just mapped with an f for which some g gives g(f(x)) # f(g(x))
C9_Witness ==
  /\ last.op = "map"
  /\ last.recv.type = "Just"
  /\ \E g \in MapFns :
       map(last.ret, g).ret # map(last.recv, Compose(last.args[1], g)).ret

\* C10: toMaybe turns Right(x) into Just(x) and every Left into Nothing, and
\* otherwise(d) on the result is the bare value x, respectively d.
C10_RoundTrip ==
  /\ last.op = "toMaybe" =>
       /\ last.ret = IF last.recv.type = "Right" THEN Just(last.recv.value)
                     ELSE Nothing
       /\ \A d \in Vals :
            otherwise(last.ret, d).ret =
              IF last.recv.type = "Right" THEN last.recv.value ELSE d
  /\ (last.op = "otherwise" /\ Len(ops) >= 2 /\ ops[Len(ops) - 1] = "toMaybe") =>
       /\ ~IsContainer(last.ret)
       /\ last.ret = IF last.recv.type = "Just" THEN last.recv.value
                     ELSE last.args[1]

\* a Left with a reason other than the default, turned into a Maybe and
\* then extracted
C10_Witness ==
  /\ init.type = "Left"
  /\ ops = <<"toMaybe", "otherwise">>
  /\ last.recv = Nothing
  /\ cur = last.args[1]
  /\ cur # init.reason

\* C11: Just(v).toEither(l) is Right(v), whatever l is, and
\* Nothing().toEither(l) is Left(l); turning the result back with toMaybe
\* gives a Maybe with the tag and the value of the original.
C11_ToEither ==
  /\ last.op = "toEither" =>
       /\ last.ret = IF last.recv.type = "Just" THEN Right(last.recv.value)
                     ELSE Left(last.args[1])
       /\ last.inv = <<>>
       /\ toMaybe(last.ret).ret = last.recv
  /\ (Len(ops) >= 2 /\ last.op = "toMaybe" /\ ops[Len(ops) - 1] = "toEither") =>
       /\ last.recv.type = "Right" => cur = Just(last.recv.value)
       /\ last.recv.type = "Left" => cur = Nothing
  /\ ops = <<"toEither", "toMaybe">> => cur = init

\* a Nothing turned into a Left and back
C11_Witness ==
  /\ init = Nothing
  /\ ops = <<"toEither", "toMaybe">>
  /\ last.recv.type = "Left"
  /\ cur = Nothing

JustIdx(ms) == {i \in 1..Len(ms) : ms[i].type = "Just"}
NothingIdx(ms) == {i \in 1..Len(ms) : ms[i].type = "Nothing"}

\* C12: sequenceMaybe(ms), and justsOrNothing(ms) before it, is Just of all
\* the values, in order, exactly when every element is a Just (Just([]) for
\* the empty list), and Nothing, with no partial result, as soon as one
\* element is a Nothing.
C12_SequenceMaybe ==
  coll.op \in {"sequenceMaybe", "justsOrNothing"} =>
    IF NothingIdx(coll.es) = {}
    THEN coll.ret = Just(Arr(ValuesOf(coll.es)))
    ELSE coll.ret = Nothing

\* a Nothing between two Justs
C12_Witness ==
  /\ coll.op = "sequenceMaybe"
  /\ Len(coll.es) >= 3
  /\ coll.es[1].type = "Just" /\ coll.es[2].type = "Nothing" /\ coll.es[3].type = "Just"
  /\ coll.ret = Nothing
ReasonsOf(xs) == [i \in 1..Len(xs) |-> xs[i].reason]

\* C13: justs(ms) and rights(es) are exactly the values of the Just,
\* respectively Right, elements, in their original order and with
\* duplicates kept: one value per such element, and the empty list when
\* there is none.
C13_JustsRights ==
  /\ coll.op = "justs" =>
       /\ coll.ret = Arr(ValuesOf(Pick(coll.es, JustIdx(coll.es))))
       /\ Len(coll.ret.items) = Cardinality(JustIdx(coll.es))
       /\ JustIdx(coll.es) = {} => coll.ret = Arr(<<>>)
  /\ coll.op = "rights" =>
       /\ coll.ret = Arr(ValuesOf(Pick(coll.es, RightIdx(coll.es))))
       /\ Len(coll.ret.items) = Cardinality(RightIdx(coll.es))
       /\ RightIdx(coll.es) = {} => coll.ret = Arr(<<>>)

\* two different values around a Nothing come out in their order
C13_Witness ==
  /\ coll.op = "justs"
  /\ coll.es = <<Just(Num(1)), Nothing, Just(Num(0))>>
  /\ coll.ret = Arr(<<Num(1), Num(0)>>)

\* C14: lefts(es) is exactly the reasons of the Left elements, in their
\* original order, and with rights(es) it partitions the list: every index
\* is counted by exactly one of the two, so the two lengths add up to the
\* length of es.
C14_LeftsPartition ==
  coll.op = "lefts" =>
    /\ coll.ret = Arr(ReasonsOf(Pick(coll.es, LeftIdx(coll.es))))
    /\ Len(coll.ret.items) = Cardinality(LeftIdx(coll.es))
    /\ Len(rights(coll.es).items) = Cardinality(RightIdx(coll.es))
    /\ LeftIdx(coll.es) \cap RightIdx(coll.es) = {}
    /\ LeftIdx(coll.es) \cup RightIdx(coll.es) = 1..Len(coll.es)
    /\ Len(rights(coll.es).items) + Len(coll.ret.items) = Len(coll.es)

\* two different reasons around a Right
C14_Witness ==
  /\ coll.op = "lefts"
  /\ coll.es = <<Left(Num(1)), Right(Num(1)), Left(Num(0))>>
  /\ coll.ret = Arr(<<Num(1), Num(0)>>)

\* C15: firstRight(es, d) is the Right of lowest index, unchanged, and
\* Left(d) exactly when es has no Right; firstJust(ms) is the Just of
\* lowest index, and Nothing exactly when ms has no Just.
C15_First ==
  /\ coll.op = "firstRight" =>
       /\ RightIdx(coll.es) # {} => coll.ret = coll.es[Min(RightIdx(coll.es))]
       /\ RightIdx(coll.es) = {} => coll.ret = Left(coll.d)
       /\ coll.ret.type = "Left" <=> RightIdx(coll.es) = {}
  /\ coll.op = "firstJust" =>
       /\ JustIdx(coll.es) # {} => coll.ret = coll.es[Min(JustIdx(coll.es))]
       /\ coll.ret = Nothing <=> JustIdx(coll.es) = {}

\* a Left, then two different Rights
C15_Witness ==
  /\ coll.op = "firstRight"
  /\ coll.es = <<Left(Num(0)), Right(Num(1)), Right(Num(0))>>
  /\ coll.ret = Right(Num(1))

\* the indices of xs at which the predicate answers with a Just
KeptIdx(xs, predicate) ==
  {i \in 1..Len(xs) : Eval(predicate.body, xs[i]).type = "Just"}

\* C16: filterMaybes(xs, predicate) is exactly the original elements of xs
\* for which predicate(x) is a Just, in their original order, and the
\* predicate is invoked exactly once per element, in index order.
C16_FilterMaybes ==
  coll.op = "filterMaybes" =>
    /\ coll.ret = Arr(Pick(coll.es, KeptIdx(coll.es, coll.f)))
    /\ coll.inv = [i \in 1..Len(coll.es) |-> [fn |-> coll.f, arg |-> coll.es[i]]]

\* the predicate's Just carries another value than the element it keeps
C16_Witness ==
  /\ coll.op = "filterMaybes"
  /\ coll.f = Fn(<<"positive">>)
  /\ coll.es = <<Num(1), Num(0), Num(1)>>
  /\ coll.ret = Arr(<<Num(1), Num(1)>>)
  /\ Len(coll.inv) = 3
AsyncOps == {"mapAsync", "bindAsync", "foldAsync"}

\* C20: once the promise returned by the caller's function has rejected with
\* r, the promise that mapAsync, bindAsync or foldAsync returned stays
\* pending until it rejects with r: no step fulfils it, with a Nothing, a
\* Left or anything else; and the client's await then throws r.
C20_AsyncFailure ==
  [][ /\ (IsPromise(inner) /\ inner.state = "rejected") =>
           /\ last.op \in AsyncOps /\ Len(last.inv) = 1
           /\ outer = PendingOuter
           /\ \/ outer' = outer /\ inner' = inner
              \/ outer' = Rejected(inner.reason)
      /\ (IsPromise(outer) /\ outer.state = "rejected" /\ outer' = NoPromise) =>
           cur' = Throw(outer.reason)
    ]_vars

\* Just(0).mapAsync(async x => x) whose function's promise rejected with 1
C20_Witness ==
  /\ last.op = "mapAsync"
  /\ last.recv = Just(Num(0))
  /\ last.args = <<AsyncFn(<<"id">>)>>
  /\ Len(last.inv) = 1
  /\ inner = NoPromise
  /\ outer = Rejected(Num(1))
\* C17: eitherFromTry(f, d) invokes f exactly once and is Right(f()) when f
\* returns and Left(d), with the caller's d whatever f threw, when f throws;
\* maybeFromTry(f) is Just(f()) or, when f throws, Nothing; what f throws
\* never reaches the client.
C17_FromTry ==
  last.op \in {"eitherFromTry", "maybeFromTry"} =>
    LET f == last.args[1]
        r == Eval(f.body, Undefined)
    IN /\ last.inv = <<[fn |-> f, arg |-> Undefined]>>
       /\ calls = 1
       /\ ~IsThrow(cur)
       /\ last.op = "eitherFromTry" =>
            cur = IF IsThrow(r) THEN Left(last.args[2]) ELSE Right(r)
       /\ last.op = "maybeFromTry" =>
            cur = IF IsThrow(r) THEN Nothing ELSE Just(r)

\* f throws 1 and the caller's default is 0
C17_Witness ==
  /\ last.op = "eitherFromTry"
  /\ last.args = <<Fn(<<"zero", "inc", "raise">>), Num(0)>>
  /\ Len(last.inv) = 1
  /\ cur = Left(Num(0))

PromiseHelpers == {"eitherFromPromise", "maybeFromPromise"}
\* what the helper op is to answer for the settled promise p
Answer(op, p) ==
  IF op = "eitherFromPromise"
  THEN IF p.state = "fulfilled" THEN Right(p.value) ELSE Left(p.reason)
  ELSE IF p.state = "fulfilled" THEN Just(p.value) ELSE Nothing

C18_NeverRejects ==
  last.op \in PromiseHelpers =>
    /\ IsPromise(outer) => outer.state # "rejected"
    /\ ~IsThrow(cur)
    /\ Settled(outer) =>
         /\ Settled(last.args[1])
         /\ outer = Fulfilled(Answer(last.op, last.args[1]))
    /\ outer = NoPromise => cur = Answer(last.op, last.args[1])

C18_Fulfilled ==
  /\ last.op \in PromiseHelpers
  /\ \/ IsPromise(outer) /\ outer.state = "fulfilled"
     \/ outer = NoPromise /\ IsContainer(cur)

\* C18: the promise returned by eitherFromPromise(p) and maybeFromPromise(p)
\* never rejects, and once p has settled it fulfils: with Right(r),
\* respectively Just(r), when p fulfilled with r, and with Left(l) carrying
\* the rejection value, respectively Nothing, when p rejected with l.
C18_FromPromise ==
  /\ []C18_NeverRejects
  /\ (last.op \in PromiseHelpers /\ Settled(last.args[1])) ~> C18_Fulfilled

\* p was rejected with 1 and the helper's promise fulfilled with Left(1)
C18_Witness ==
  /\ last.op = "eitherFromPromise"
  /\ last.args = <<Rejected(Num(1))>>
  /\ outer = Fulfilled(Left(Num(1)))

\* C19: nullableToMaybe(x) is Nothing, and nullableToEither(x, d) is
\* Left(d), if and only if x is null or undefined; every other value, 0, the
\* empty string and false included, gives Just(x), respectively Right(x).
C19_Nullable ==
  /\ last.op = "nullableToMaybe" =>
       LET x == last.args[1] IN
         /\ cur = Nothing <=> x \in {Null, Undefined}
         /\ x \in {Num(0), Str(""), Bool(FALSE)} => cur = Just(x)
         /\ x \notin {Null, Undefined} => cur = Just(x)
         /\ last.inv = <<>>
  /\ last.op = "nullableToEither" =>
       LET x == last.args[1]
           d == last.args[2]
       IN /\ cur = Left(d) <=> x \in {Null, Undefined}
          /\ x \in {Num(0), Str(""), Bool(FALSE)} => cur = Right(x)
          /\ x \notin {Null, Undefined} => cur = Right(x)
          /\ last.inv = <<>>

\* the empty string is kept
C19_Witness ==
  /\ last.op = "nullableToMaybe"
  /\ last.args = <<Str("")>>
  /\ cur = Just(Str(""))
\* the call in progress is mapAsync on a container that holds a value
MapAsyncOnValue ==
  last.op = "mapAsync" /\ last.recv.type \in {"Just", "Right"}

C21_Ordered ==
  MapAsyncOnValue =>
    /\ last.inv = <<[fn |-> last.args[1], arg |-> last.recv.value]>>
    /\ last.ret = PendingOuter
    /\ (IsPromise(inner) /\ inner.state = "pending") => outer = PendingOuter
    /\ (IsPromise(outer) /\ outer.state = "fulfilled") =>
         /\ inner = NoPromise
         /\ outer.value.type = last.recv.type
         /\ ~IsPromise(outer.value.value)

\* C21: Just(v).mapAsync(f) and Right(v).mapAsync(f) invoke f(v) exactly
\* once; the promise they return is pending when the call returns and is
\* never fulfilled while the promise of f(v) is pending; once that promise
\* has fulfilled with u, the returned promise eventually fulfils with
\* Just(u), respectively Right(u).
C21_MapAsyncOrder ==
  /\ []C21_Ordered
  /\ \A u \in Vals :
       /\ (MapAsyncOnValue /\ last.recv.type = "Just" /\ inner = Fulfilled(u))
            ~> (MapAsyncOnValue /\ outer = Fulfilled(Just(u)))
       /\ (MapAsyncOnValue /\ last.recv.type = "Right" /\ inner = Fulfilled(u))
            ~> (MapAsyncOnValue /\ outer = Fulfilled(Right(u)))

\* Just(0).mapAsync(async x => x + 1) has fulfilled with Just(1)
C21_Witness ==
  /\ last.op = "mapAsync"
  /\ last.recv = Just(Num(0))
  /\ last.args = <<AsyncFn(<<"inc">>)>>
  /\ Len(last.inv) = 1
  /\ outer = Fulfilled(Just(Num(1)))

FoldAsyncOnNothing == last.op = "foldAsync" /\ last.recv = Nothing

C22_NotScheduled ==
  FoldAsyncOnNothing =>
    /\ last.inv = <<>>
    /\ inner = NoPromise /\ susp = "none"
    /\ \A i \in 1..Len(jobs) : jobs[i].job # "resume"
    /\ Settled(outer) => outer = Fulfilled(last.args[1])
    /\ outer = NoPromise => cur = last.args[1]

\* C22: Nothing().foldAsync(d, f) returns a promise that fulfils with d, and
\* f is never invoked and nothing is ever queued that would invoke it,
\* before or after the fulfilment.
C22_FoldAsyncNothing ==
  /\ []C22_NotScheduled
  /\ \A d \in Vals :
       (FoldAsyncOnNothing /\ last.args[1] = d /\ outer = PendingOuter)
         ~> (FoldAsyncOnNothing /\ outer = Fulfilled(d))

\* Nothing().foldAsync(1, f) has fulfilled with 1
C22_Witness ==
  /\ last.op = "foldAsync"
  /\ last.recv = Nothing
  /\ last.args[1] = Num(1)
  /\ last.inv = <<>>
  /\ outer = Fulfilled(Num(1))
C24_Extractors ==
  /\ (last.op \in {"otherwise", "fromRight"} /\ IsEither(last.recv)) =>
       /\ last.ret = IF last.recv.type = "Right" THEN last.recv.value
                     ELSE last.args[1]
       /\ last.inv = <<>>
       /\ cur = last.ret
  /\ last.op = "fromLeft" =>
       /\ last.ret = IF last.recv.type = "Left" THEN last.recv.reason
                     ELSE last.args[1]
       /\ last.inv = <<>>
       /\ cur = last.ret

\* Left(1).fromLeft(0) is 1
C24_Witness ==
  /\ last.op = "fromLeft"
  /\ last.recv = Left(Num(1))
  /\ last.args = <<Num(0)>>
  /\ cur = Num(1)
\* C25: the library never throws on its own account: no caller-supplied
\* function of the model throws, so no method call ends in a throw and no
\* async method returns a promise that its own synchronous part rejected.
C25_NeverThrows ==
  last.op # "none" =>
    /\ ~IsThrow(last.ret)
    /\ ~(IsPromise(last.ret) /\ last.ret.state = "rejected")
\* the container c is in exactly one variant, its queries agree with its
\* tag, and it carries what its variant carries
OneVariant(c) ==
  /\ c.type \in {"Just", "Nothing", "Right", "Left"}
  /\ IsMaybe(c) =>
       /\ isJust(c) # isNothing(c)
       /\ isJust(c) <=> c.type = "Just"
       /\ DOMAIN c = IF c.type = "Just" THEN {"type", "value"} ELSE {"type"}
  /\ IsEither(c) =>
       /\ isRight(c) # isLeft(c)
       /\ isRight(c) <=> c.type = "Right"
       /\ DOMAIN c = IF c.type = "Right" THEN {"type", "value"}
                     ELSE {"type", "reason"}

\* C26: every container a client ever holds, constructed or returned by any
\* sequence of combinators, synchronously or through a promise, is in
\* exactly one variant: exactly one of isJust/isNothing (isRight/isLeft) is
\* true, it agrees with the tag, a Just or Right carries a value and a Left
\* a reason.
C26_Variant ==
  /\ OneVariant(init)
  /\ IsContainer(cur) => OneVariant(cur)
  /\ last.op # "none" =>
       /\ OneVariant(last.recv)
       /\ IsContainer(last.ret) => OneVariant(last.ret)
  /\ (IsPromise(outer) /\ outer.state = "fulfilled" /\ IsContainer(outer.value)) =>
       OneVariant(outer.value)

\* a Right turned into a Left by bind, then transformed by mapLeft
C26_Witness ==
  /\ init.type = "Right"
  /\ ops = <<"bind", "mapLeft", "mapAsync">>
  /\ outer = NoPromise
  /\ cur.type = "Left"
\* the call in progress is an async method that has no value to work on
AsyncOnNoValue ==
  /\ last.op \in AsyncOps
  /\ last.recv.type \in {"Nothing", "Left"}
  /\ last.op = "foldAsync" => last.recv.type = "Nothing"

\* C27: on Nothing() and on Left(e), the promise that mapAsync and bindAsync
\* (and foldAsync of a Maybe) return is already fulfilled when the call
\* returns, no microtask is queued before it is, and the caller's function
\* is never invoked.
C27_NoSuspension ==
  AsyncOnNoValue =>
    /\ last.inv = <<>>
    /\ IsPromise(last.ret) /\ last.ret.state = "fulfilled"
    /\ jobs = <<>>
\* the combinators that return a container of the same kind
AbsorbOps ==
  {"map", "bind", "mapAsync", "bindAsync", "mapLeft",
   "onJust", "onNothing", "onRight", "onLeft"}
\* the operations that leave the container algebra
TerminalOps == {"fold", "foldAsync", "otherwise", "fromRight", "fromLeft"}
NoValue(c) == IsContainer(c) /\ c.type \in {"Nothing", "Left"}

\* C28: Nothing and Left are absorbing: after any sequence of map, bind,
\* mapAsync, bindAsync, mapLeft and hook calls that starts from Nothing(),
\* respectively Left(e), the client holds a Nothing, respectively a Left,
\* at every point, and so does every promise fulfilled on the way; the
\* conversions keep it on the no-value side, and the client holds anything
\* else only after a terminal operation, of which fromLeft returns the
\* reason.
C28_Absorbing ==
  NoValue(init) =>
    /\ (\A i \in 1..Len(ops) : ops[i] \in AbsorbOps) =>
         /\ cur.type = init.type
         /\ init = Nothing => cur = Nothing
         /\ (IsPromise(outer) /\ outer.state = "fulfilled") =>
              outer.value.type = init.type
         /\ ~(IsPromise(outer) /\ outer.state = "rejected")
    /\ (\A i \in 1..Len(ops) : ops[i] \notin TerminalOps) => NoValue(cur)
    /\ ~NoValue(cur) =>
         /\ \E i \in 1..Len(ops) : ops[i] \in TerminalOps
         /\ last.op = "fromLeft" => cur = last.recv.reason

\* Left(0) after mapLeft, bindAsync and onRight is Left(1)
C28_Witness ==
  /\ init = Left(Num(0))
  /\ ops = <<"mapLeft", "bindAsync", "onRight">>
  /\ outer = NoPromise
  /\ cur = Left(Num(1))
\* C29: mergeEither and rightsOr are the same function: on every list and
\* every reason they return the same result, Right of the values of the
\* Rights in their original order when there is at least one, and Left(d)
\* otherwise.
C29_MergeIsRightsOr ==
  /\ coll.op = "mergeEither" =>
       /\ coll.ret = rightsOr(coll.es, coll.d)
       /\ coll.ret = IF RightIdx(coll.es) = {} THEN Left(coll.d)
                     ELSE Right(Arr(ValuesOf(Pick(coll.es, RightIdx(coll.es)))))
  /\ coll.op = "rightsOr" => coll.ret = mergeEither(coll.es, coll.d)

\* a list of Lefts only
C29_Witness ==
  /\ coll.op = "mergeEither"
  /\ coll.es = <<Left(Num(0)), Left(Num(0))>>
  /\ coll.d = Num(1)
  /\ coll.ret = Left(Num(1))
\* C30: bind is associative: m.bind(f).bind(g) equals m.bind(x =>
\* f(x).bind(g)) for every container m and all container-returning f and g,
\* where the bind of a Just or Right invokes f once on the value and
\* returns what f returned, as it is.
C30_BindAssociative ==
  /\ (last.op = "bind" /\ last.recv.type \in {"Just", "Right"}) =>
       /\ last.ret = Eval(last.args[1].body, last.recv.value)
       /\ last.inv = <<[fn |-> last.args[1], arg |-> last.recv.value]>>
  /\ ops = <<"bind", "bind">> =>
       \A f \in BindFns(init) :
         bind(init, f).ret = last.recv =>
           cur = bind(init, BindThen(f, last.args[1])).ret

\* Right(0).bind(x => Right(x + 1)).bind(x => Left(x)) is Left(1)
C30_Witness ==
  /\ init = Right(Num(0))
  /\ ops = <<"bind", "bind">>
  /\ last.recv = Right(Num(1))
  /\ last.args = <<Fn(<<"left">>)>>
  /\ cur = Left(Num(1))
  /\ cur = bind(init, BindThen(Fn(<<"inc", "right">>), Fn(<<"left">>))).ret

====
